---- MODULE Spec2Model ----
(***************************************************************************)
(* Grocery-list builder: the functional pipeline of functional.py          *)
(* (regularize_ingredient, add_recipe_to_ingredients, create_grocery_list) *)
(* and the object-oriented pipeline of oop.py (MaterialDefinitions,        *)
(* Ingredient, ShoppingCart).  Quantities are astropy quantities: a value  *)
(* with a unit; values are exact rationals <<numerator, denominator>>.     *)
(***************************************************************************)
EXTENDS Integers, Sequences, FiniteSets, TLC

\* ------------------------------------------------------------------ bounds
MaxRecipes == 2
MaxIngredients == 3
MaxCalls == 2

\* ------------------------------------------------------- input vocabulary
\* Item names in ascending string order: the position is the sort key.
ItemNames == <<"Flour", "Rice">>
Items == {ItemNames[k] : k \in 1..Len(ItemNames)}
Units == {"g", "kg", "cup", "ct"}
Values == {1}
None == [none |-> TRUE]

\* -------------------------------------------------------------- rationals
RECURSIVE GCD(_, _)
GCD(a, b) == IF b = 0 THEN a ELSE GCD(b, a % b)

Norm(n, d) == LET g == GCD(n, d) IN <<n \div g, d \div g>>
RMul(x, y) == Norm(x[1] * y[1], x[2] * y[2])
RDiv(x, y) == Norm(x[1] * y[2], x[2] * y[1])
RAdd(x, y) == Norm(x[1] * y[2] + y[1] * x[2], x[2] * y[2])

\* ------------------------------------------------------------ astropy units
mass_type == "mass"
volume_type == "volume"
count_type == "unknown"

physical_type(unit) ==
    CASE unit \in {"g", "kg"} -> mass_type
      [] unit = "cup" -> volume_type
      [] OTHER -> count_type

\* Size of a unit in the base unit of its physical type.
scale(unit) == IF unit = "kg" THEN <<1000, 1>> ELSE <<1, 1>>

RECURSIVE scale_of(_)
scale_of(units) ==
    IF units = <<>> THEN <<1, 1>> ELSE RMul(scale(Head(units)), scale_of(Tail(units)))

Occurrences(units, ptype) ==
    Cardinality({k \in 1..Len(units) : physical_type(units[k]) = ptype})

Ok(v) == [ok |-> TRUE, val |-> v]
Raise(e) == [ok |-> FALSE, err |-> e]

\* A quantity with a simple unit, as read from a recipe or returned by .to().
Q(value, unit) == [value |-> value, unit |-> unit]

\* A quantity as astropy holds it after arithmetic: value, units multiplied,
\* units divided.
Compound(q) == [value |-> q.value, mul |-> <<q.unit>>, div |-> <<>>]

\* Quantity.to(unit): a fresh quantity in `unit`, or UnitConversionError when the
\* physical types differ.
to(cq, unit) ==
    IF \A p \in {mass_type, volume_type, count_type} :
          Occurrences(cq.mul, p) - Occurrences(cq.div, p)
            = (IF physical_type(unit) = p THEN 1 ELSE 0)
    THEN Ok(Q(RDiv(RMul(cq.value, RDiv(scale_of(cq.mul), scale_of(cq.div))), scale(unit)),
              unit))
    ELSE Raise("UnitConversionError")

\* Mutant of truediv: multiplies by the factor.
truediv_times(q, factor) ==
    IF factor = None
    THEN Raise("TypeError")
    ELSE Ok([value |-> RMul(q.value, factor.value),
             mul |-> <<q.unit, factor.num>>,
             div |-> <<factor.den>>])

\* quantity / factor, factor being value * (num / den) or None.
truediv(q, factor) ==
    IF factor = None
    THEN Raise("TypeError")
    ELSE Ok([value |-> RDiv(q.value, factor.value),
             mul |-> <<q.unit, factor.den>>,
             div |-> <<factor.num>>])

\* a + b: in the unit of the left operand, the right one converted.
add(a, b) ==
    LET c == to(Compound(b), a.unit)
    IN  IF c.ok THEN Ok(Q(RAdd(a.value, c.val.value), a.unit)) ELSE c

\* ------------------------------------------------------------- data models
Quantities == {Q(<<v, 1>>, u) : v \in Values, u \in Units}
IngredientData == [item : Items, quantity : Quantities]

MassFactor == [value |-> <<2, 1>>, num |-> "g", den |-> "cup"]
VolumeFactor == [value |-> <<2, 1>>, num |-> "cup", den |-> "kg"]

MaterialData ==
    [name : Items, unit : Units,
     mass_per_unit : {None, MassFactor}, volume_per_unit : {None, VolumeFactor}]

Material(name, unit, mass_per_unit, volume_per_unit) ==
    [name |-> name, unit |-> unit,
     mass_per_unit |-> mass_per_unit, volume_per_unit |-> volume_per_unit]

\* ------------------------------------------------------------ functional.py
\* {material.name: material for material in material_definitions}: the last wins.
RECURSIVE lookup_of(_, _)
lookup_of(material_list, name) ==
    IF material_list = <<>> THEN None
    ELSE IF material_list[Len(material_list)].name = name
         THEN material_list[Len(material_list)]
         ELSE lookup_of(SubSeq(material_list, 1, Len(material_list) - 1), name)

regularize_ingredient(ingredient, material_list) ==
    LET material == lookup_of(material_list, ingredient.item)
        ptype == physical_type(ingredient.quantity.unit)
        quantity ==
            IF ptype = physical_type(material.unit)
            THEN Ok(Compound(ingredient.quantity))
            ELSE IF ptype = mass_type
                 THEN truediv(ingredient.quantity, material.mass_per_unit)
                 ELSE IF ptype = volume_type
                      THEN truediv(ingredient.quantity, material.volume_per_unit)
                      ELSE Raise("ValueError: Cannot regularize")
    IN  IF material # None
        THEN IF quantity.ok
             THEN LET converted == to(quantity.val, material.unit)
                  IN  IF converted.ok
                      THEN Ok([item |-> ingredient.item, quantity |-> converted.val])
                      ELSE converted
             ELSE quantity
        ELSE Ok(ingredient)

\* Mutant of regularize_recipe: an ingredient that cannot be regularized is left out.
RECURSIVE regularize_recipe_skip(_, _)
regularize_recipe_skip(recipe, material_list) ==
    IF recipe = <<>> THEN Ok(<<>>)
    ELSE LET first == regularize_ingredient(Head(recipe), material_list)
             rest == regularize_recipe_skip(Tail(recipe), material_list)
         IN  IF first.ok THEN Ok(<<first.val>> \o rest.val) ELSE rest

\* The list comprehension of regularize_recipe: the first failure ends it.
RECURSIVE regularize_recipe(_, _)
regularize_recipe(recipe, material_list) ==
    IF recipe = <<>> THEN Ok(<<>>)
    ELSE LET first == regularize_ingredient(Head(recipe), material_list)
         IN  IF ~first.ok THEN first
             ELSE LET rest == regularize_recipe(Tail(recipe), material_list)
                  IN  IF rest.ok THEN Ok(<<first.val>> \o rest.val) ELSE rest

Key(item) == CHOOSE k \in 1..Len(ItemNames) : ItemNames[k] = item

\* sorted(..., key=item): stable.
RECURSIVE insert(_, _)
insert(sorted_list, ingredient) ==
    IF sorted_list = <<>> THEN <<ingredient>>
    ELSE LET last == sorted_list[Len(sorted_list)]
         IN  IF Key(last.item) <= Key(ingredient.item)
             THEN Append(sorted_list, ingredient)
             ELSE Append(insert(SubSeq(sorted_list, 1, Len(sorted_list) - 1), ingredient),
                         last)

\* Mutant of sorted: the list is left in the order given.
unsorted(list) == list

RECURSIVE sorted(_)
sorted(list) ==
    IF list = <<>> THEN <<>>
    ELSE insert(sorted(SubSeq(list, 1, Len(list) - 1)), list[Len(list)])

\* Mutant of merge_step: the merged entry takes the new quantity alone.
merge_step_replace(merged_ingredients, ingredient) ==
    IF merged_ingredients # <<>>
       /\ ingredient.item = merged_ingredients[Len(merged_ingredients)].item
    THEN Ok(Append(SubSeq(merged_ingredients, 1, Len(merged_ingredients) - 1), ingredient))
    ELSE Ok(Append(merged_ingredients, ingredient))

\* Mutant of merge_step: the ingredient is compared with the head of the list.
merge_step_first(merged_ingredients, ingredient) ==
    IF merged_ingredients # <<>> /\ ingredient.item = merged_ingredients[1].item
    THEN LET sum == add(ingredient.quantity, merged_ingredients[1].quantity)
         IN  IF sum.ok
             THEN Ok(<<[item |-> ingredient.item, quantity |-> sum.val]>>
                     \o Tail(merged_ingredients))
             ELSE sum
    ELSE Ok(Append(merged_ingredients, ingredient))

\* Mutant of merge_step: the operands of the sum are swapped.
merge_step_swapped(merged_ingredients, ingredient) ==
    IF merged_ingredients # <<>>
       /\ ingredient.item = merged_ingredients[Len(merged_ingredients)].item
    THEN LET sum == add(merged_ingredients[Len(merged_ingredients)].quantity,
                        ingredient.quantity)
         IN  IF sum.ok
             THEN Ok(Append(SubSeq(merged_ingredients, 1, Len(merged_ingredients) - 1),
                            [item |-> ingredient.item, quantity |-> sum.val]))
             ELSE sum
    ELSE Ok(Append(merged_ingredients, ingredient))

\* The lambda of the reduce in add_recipe_to_ingredients.
merge_step(merged_ingredients, ingredient) ==
    IF merged_ingredients # <<>>
       /\ ingredient.item = merged_ingredients[Len(merged_ingredients)].item
    THEN LET sum == add(ingredient.quantity,
                        merged_ingredients[Len(merged_ingredients)].quantity)
         IN  IF sum.ok
             THEN Ok(Append(SubSeq(merged_ingredients, 1, Len(merged_ingredients) - 1),
                            [item |-> ingredient.item, quantity |-> sum.val]))
             ELSE sum
    ELSE Ok(Append(merged_ingredients, ingredient))

RECURSIVE reduce_merge(_, _)
reduce_merge(merged, list) ==
    IF list = <<>> THEN Ok(merged)
    ELSE LET next == merge_step(merged, Head(list))
         IN  IF next.ok THEN reduce_merge(next.val, Tail(list)) ELSE next

add_recipe_to_ingredients(ingredients, recipe) ==
    reduce_merge(<<>>, sorted(ingredients \o recipe))

\* reduce(add_recipe_to_ingredients, map(regularize_recipe, recipes), iter(())): the
\* map is lazy, so each recipe is regularized right before it is merged.
RECURSIVE reduce_recipes(_, _, _)
reduce_recipes(ingredients, recipe_list, material_list) ==
    IF recipe_list = <<>> THEN Ok(ingredients)
    ELSE LET regular == regularize_recipe(Head(recipe_list), material_list)
         IN  IF ~regular.ok THEN regular
             ELSE LET merged == add_recipe_to_ingredients(ingredients, regular.val)
                  IN  IF merged.ok
                      THEN reduce_recipes(merged.val, Tail(recipe_list), material_list)
                      ELSE merged

create_grocery_list(recipe_list, material_list) ==
    reduce_recipes(<<>>, recipe_list, material_list)

\* ------------------------------------------------------------------- oop.py
regularize_physical_type(material, quantity) ==
    IF physical_type(quantity.unit) = mass_type
    THEN truediv(quantity, material.mass_per_unit)
    ELSE IF physical_type(quantity.unit) = volume_type
         THEN truediv(quantity, material.volume_per_unit)
         ELSE Raise("ValueError: Cannot regularize")

\* Mutant of regularize_unit: the value is kept and only the unit replaced.
regularize_unit_relabel(material, quantity) ==
    LET converted == to(quantity, material.unit)
    IN  IF converted.ok THEN Ok(Q(quantity.value, material.unit)) ELSE converted

regularize_unit(material, quantity) == to(quantity, material.unit)

\* Ingredient.__init__: the new object, or what the constructor raises.
Ingredient(quantity, material) ==
    LET regular == IF physical_type(quantity.unit) = physical_type(material.unit)
                   THEN Ok(Compound(quantity))
                   ELSE regularize_physical_type(material, quantity)
    IN  IF regular.ok
        THEN LET converted == regularize_unit(material, regular.val)
             IN  IF converted.ok
                 THEN Ok([quantity |-> converted.val, material |-> material])
                 ELSE converted
        ELSE regular

\* MaterialDefinitions.__init__: the dict keyed by name.
MaterialDefinitions(material_list) == [name \in Items |-> lookup_of(material_list, name)]

\* Mutant of load_ingredient: a material is made from every ingredient.
load_ingredient_overwrite(lookup, ingredient_data) ==
    LET new_material == Material(ingredient_data.item, ingredient_data.quantity.unit,
                                 None, None)
    IN  [lookup |-> [lookup EXCEPT ![ingredient_data.item] = new_material],
         result |-> Ingredient(ingredient_data.quantity, new_material)]

\* MaterialDefinitions.load_ingredient: the dict after the call and what it returns.
load_ingredient(lookup, ingredient_data) ==
    LET material == lookup[ingredient_data.item]
        new_material == Material(ingredient_data.item, ingredient_data.quantity.unit,
                                 None, None)
    IN  IF material # None
        THEN [lookup |-> lookup, result |-> Ingredient(ingredient_data.quantity, material)]
        ELSE [lookup |-> [lookup EXCEPT ![ingredient_data.item] = new_material],
              result |-> Ingredient(ingredient_data.quantity, new_material)]

\* The loops of ShoppingCart.from_files.  Objects live in `heap`; a recipe holds the
\* references of its Ingredient objects.
RECURSIVE load_recipe(_, _)
load_recipe(st, recipe_data) ==
    IF recipe_data = <<>> \/ ~st.ok THEN st
    ELSE LET loaded == load_ingredient(st.lookup, Head(recipe_data))
         IN  IF loaded.result.ok
             THEN load_recipe([st EXCEPT !.lookup = loaded.lookup,
                                         !.heap = Append(@, loaded.result.val),
                                         !.refs = Append(@, Len(st.heap) + 1)],
                              Tail(recipe_data))
             ELSE [st EXCEPT !.lookup = loaded.lookup, !.ok = FALSE,
                             !.err = loaded.result.err]

RECURSIVE load_recipes(_, _)
load_recipes(st, recipe_data_list) ==
    IF recipe_data_list = <<>> \/ ~st.ok THEN st
    ELSE LET one == load_recipe([st EXCEPT !.refs = <<>>], Head(recipe_data_list))
         IN  load_recipes([one EXCEPT !.recipes = IF one.ok THEN Append(@, one.refs) ELSE @],
                          Tail(recipe_data_list))

from_files(recipe_data_list, material_list) ==
    load_recipes([ok |-> TRUE, err |-> None, lookup |-> MaterialDefinitions(material_list),
                  heap |-> <<>>, refs |-> <<>>, recipes |-> <<>>],
                 recipe_data_list)

RECURSIVE flatten(_)
flatten(lists) == IF lists = <<>> THEN <<>> ELSE Head(lists) \o flatten(Tail(lists))

InCart(cart, name) == \E k \in 1..Len(cart) : cart[k].name = name
CartRef(cart, name) == cart[CHOOSE k \in 1..Len(cart) : cart[k].name = name].ref

\* The body of the inner loop of get_shopping_list for one recipe ingredient.
accumulate(st, ref) ==
    LET ingredient == st.heap[ref]
        name == ingredient.material.name
        zero == Ingredient(Q(<<0, 1>>, ingredient.material.unit), ingredient.material)
        st1 == IF InCart(st.cart, name) THEN st
               ELSE [st EXCEPT !.cart = Append(@, [name |-> name, ref |-> Len(st.heap) + 1]),
                               !.heap = Append(@, zero.val)]
        target == CartRef(st1.cart, name)
        sum == add(st1.heap[target].quantity, ingredient.quantity)
    IN  IF sum.ok
        THEN [st1 EXCEPT !.heap[target].quantity = sum.val]
        ELSE [st1 EXCEPT !.ok = FALSE, !.err = sum.err]

RECURSIVE accumulate_all(_, _)
accumulate_all(st, refs) ==
    IF refs = <<>> \/ ~st.ok THEN st
    ELSE accumulate_all(accumulate(st, Head(refs)), Tail(refs))

\* Mutant of get_shopping_list: the recipes are accumulated on every call.
get_shopping_list_again(cart, objects, recipe_refs) ==
    LET st == accumulate_all([ok |-> TRUE, err |-> None, cart |-> cart, heap |-> objects],
                             flatten(recipe_refs))
    IN  [cart |-> st.cart, heap |-> st.heap,
         result |-> IF st.ok THEN Ok([k \in 1..Len(st.cart) |-> st.cart[k].ref])
                    ELSE Raise(st.err)]

\* ShoppingCart.get_shopping_list: the cart and the heap after the call, and the list
\* of references it returns.
get_shopping_list(cart, objects, recipe_refs) ==
    LET st == IF cart = <<>>
              THEN accumulate_all([ok |-> TRUE, err |-> None, cart |-> cart,
                                   heap |-> objects],
                                  flatten(recipe_refs))
              ELSE [ok |-> TRUE, err |-> None, cart |-> cart, heap |-> objects]
    IN  [cart |-> st.cart, heap |-> st.heap,
         result |-> IF st.ok THEN Ok([k \in 1..Len(st.cart) |-> st.cart[k].ref])
                    ELSE Raise(st.err)]

\* What a caller reads off a list of Ingredient references.
Shown(objects, refs) ==
    [k \in 1..Len(refs) |-> [item |-> objects[refs[k]].material.name,
                             quantity |-> objects[refs[k]].quantity]]

\* ------------------------------------------------------------------- state
VARIABLES
    material_definitions,   \* the materials loaded from materials.json
    recipes,                \* the recipes loaded from recipes.json (ingredient lists)
    grocery_list,           \* what create_grocery_list returned or raised
    material_lookup,        \* MaterialDefinitions._material_lookup
    heap,                   \* the Ingredient objects, by reference
    cart_recipes,           \* ShoppingCart.recipes: per recipe, its Ingredient references
    shopping_cart,          \* ShoppingCart._shopping_cart, in insertion order
    shopping_list,          \* what the last call of from_files/get_shopping_list gave
    first_list,             \* what the caller read off the first list returned
    o_pc,                   \* oop.py: "start", "cart", "listed" or "raised"
    calls,                  \* number of calls of get_shopping_list so far
    regularized,            \* last call of regularize_ingredient: argument and result
    constructed,            \* last call of Ingredient(...): arguments and result
    loaded                  \* last call of load_ingredient: argument and result

vars == <<material_definitions, recipes, grocery_list, material_lookup, heap, cart_recipes,
          shopping_cart, shopping_list, first_list, o_pc, calls, regularized, constructed,
          loaded>>

\* Sequences of at most n elements of S.
RECURSIVE SeqUpTo(_, _)
SeqUpTo(S, n) ==
    IF n = 0 THEN {<<>>}
    ELSE LET shorter == SeqUpTo(S, n - 1)
         IN  shorter \cup {Append(s, x) : s \in {t \in shorter : Len(t) = n - 1}, x \in S}

\* recipes.json of the builds: Flour in any unit, Rice by weight or by the cup.
RecipeIngredients ==
    {i \in IngredientData : i.item = "Rice" => i.quantity.unit \in {"g", "cup"}}

\* The ways to cut a list of n ingredients into at most MaxRecipes recipes: the sizes.
RECURSIVE Sum(_)
Sum(sizes) == IF sizes = <<>> THEN 0 ELSE Head(sizes) + Sum(Tail(sizes))

Cuts(n) ==
    {sizes \in UNION {[1..k -> 0..n] : k \in 0..MaxRecipes} : Sum(sizes) = n}

Split(flat, sizes) ==
    [j \in 1..Len(sizes) |->
        SubSeq(flat, Sum(SubSeq(sizes, 1, j - 1)) + 1, Sum(SubSeq(sizes, 1, j)))]

\* materials.json of the builds: nothing known, or Flour known in one of these ways.
Pantry ==
    { Material("Flour", "g", None, VolumeFactor),
      Material("Flour", "cup", MassFactor, None),
      Material("Flour", "kg", None, None),
      Material("Flour", "ct", MassFactor, VolumeFactor) }

PantryLists == {<<>>} \cup {<<m>> : m \in Pantry}

\* materials.json of the single calls: every list of at most two materials.
MaterialLists ==
    {<<>>} \cup {<<m>> : m \in MaterialData} \cup {<<m, n>> : m, n \in MaterialData}

InitBuild ==
    /\ grocery_list = None
    /\ material_lookup = [name \in Items |-> None]
    /\ heap = <<>>
    /\ cart_recipes = <<>>
    /\ shopping_cart = <<>>
    /\ shopping_list = None
    /\ first_list = None
    /\ o_pc = "start"
    /\ calls = 0
    /\ regularized = None
    /\ constructed = None
    /\ loaded = None

Init ==
    /\ material_definitions \in PantryLists
    /\ \E flat \in SeqUpTo(RecipeIngredients, MaxIngredients) :
          \E sizes \in Cuts(Len(flat)) : recipes = Split(flat, sizes)
    /\ InitBuild

InitCall ==
    /\ material_definitions \in MaterialLists
    /\ recipes = <<>>
    /\ InitBuild

InitCatalog ==
    /\ material_definitions \in MaterialLists
    /\ recipes = <<>>
    /\ grocery_list = None
    /\ material_lookup = MaterialDefinitions(material_definitions)
    /\ heap = <<>>
    /\ cart_recipes = <<>>
    /\ shopping_cart = <<>>
    /\ shopping_list = None
    /\ first_list = None
    /\ o_pc = "start"
    /\ calls = 0
    /\ regularized = None
    /\ constructed = None
    /\ loaded = None

\* functional.py main: the grocery list of the recipes.
CreateGroceryList ==
    /\ grocery_list = None
    /\ grocery_list' = create_grocery_list(recipes, material_definitions)
    /\ UNCHANGED <<material_definitions, recipes, material_lookup, heap, cart_recipes,
                   shopping_cart, shopping_list, first_list, o_pc, calls, regularized,
                   constructed, loaded>>

\* oop.py main: ShoppingCart.from_files, ending in ShoppingCart.__init__.
FromFiles ==
    /\ o_pc = "start"
    /\ \E st \in {from_files(recipes, material_definitions)} :
           IF st.ok
           THEN /\ material_lookup' = st.lookup
                /\ heap' = st.heap
                /\ cart_recipes' = st.recipes
                /\ shopping_cart' = <<>>
                /\ o_pc' = "cart"
                /\ UNCHANGED shopping_list
           ELSE /\ o_pc' = "raised"
                /\ shopping_list' = Raise(st.err)
                /\ UNCHANGED <<material_lookup, heap, cart_recipes, shopping_cart>>
    /\ UNCHANGED <<material_definitions, recipes, grocery_list, first_list, calls,
                   regularized, constructed, loaded>>

GetShoppingList ==
    /\ o_pc \in {"cart", "listed"}
    /\ calls < MaxCalls
    /\ calls' = calls + 1
    /\ \E got \in {get_shopping_list(shopping_cart, heap, cart_recipes)} :
           /\ shopping_cart' = got.cart
           /\ heap' = got.heap
           /\ shopping_list' = got.result
           /\ first_list' = IF first_list = None /\ got.result.ok
                            THEN Ok(Shown(got.heap, got.result.val))
                            ELSE first_list
           /\ o_pc' = IF got.result.ok THEN "listed" ELSE "raised"
    /\ UNCHANGED <<material_definitions, recipes, grocery_list, material_lookup,
                   cart_recipes, regularized, constructed, loaded>>

\* A call of regularize_ingredient against the lookup table of the materials.
RegularizeIngredient ==
    /\ \E ingredient \in IngredientData :
          regularized' = [ingredient |-> ingredient,
                          result |-> regularize_ingredient(ingredient, material_definitions)]
    /\ UNCHANGED <<material_definitions, recipes, grocery_list, material_lookup, heap,
                   cart_recipes, shopping_cart, shopping_list, first_list, o_pc, calls,
                   constructed, loaded>>

\* A call of Ingredient(quantity, material) with a material of the lookup table.
ConstructIngredient ==
    /\ \E quantity \in Quantities, name \in Items :
          /\ lookup_of(material_definitions, name) # None
          /\ constructed' =
                [quantity |-> quantity,
                 material |-> lookup_of(material_definitions, name),
                 result |-> Ingredient(quantity, lookup_of(material_definitions, name))]
    /\ UNCHANGED <<material_definitions, recipes, grocery_list, material_lookup, heap,
                   cart_recipes, shopping_cart, shopping_list, first_list, o_pc, calls,
                   regularized, loaded>>

\* A call of load_ingredient on the catalog.
LoadIngredient ==
    /\ \E ingredient_data \in IngredientData :
          \E call \in {load_ingredient(material_lookup, ingredient_data)} :
              /\ material_lookup' = call.lookup
              /\ loaded' = [ingredient_data |-> ingredient_data, result |-> call.result]
    /\ UNCHANGED <<material_definitions, recipes, grocery_list, heap, cart_recipes,
                   shopping_cart, shopping_list, first_list, o_pc, calls, regularized,
                   constructed>>

NextFunctional == CreateGroceryList
NextShoppingCart == FromFiles \/ GetShoppingList
NextRegularize == RegularizeIngredient \/ ConstructIngredient
NextCatalog == LoadIngredient
Next == CreateGroceryList \/ FromFiles \/ GetShoppingList

Spec == Init /\ [][Next]_vars
SpecFunctional == Init /\ [][NextFunctional]_vars
SpecShoppingCart == Init /\ [][NextShoppingCart]_vars
SpecRegularize == InitCall /\ [][NextRegularize]_vars
SpecCatalog == InitCatalog /\ [][NextCatalog]_vars

\* ---------------------------------------------------------------- properties
\* The amount of a quantity in the base unit of its physical type.
Base(q) == RMul(q.value, scale(q.unit))

RECURSIVE TotalOf(_, _)
TotalOf(name, list) ==
    IF list = <<>> THEN <<0, 1>>
    ELSE IF Head(list).item = name
         THEN RAdd(Base(Head(list).quantity), TotalOf(name, Tail(list)))
         ELSE TotalOf(name, Tail(list))

RECURSIVE Named(_, _)
Named(name, list) ==
    IF list = <<>> THEN <<>>
    ELSE IF Head(list).item = name
         THEN <<Head(list)>> \o Named(name, Tail(list))
         ELSE Named(name, Tail(list))

\* Every ingredient of every recipe, in the order given, and what
\* regularize_ingredient makes of each.
AllIngredients == flatten(recipes)
Regularized ==
    [k \in 1..Len(AllIngredients) |->
        regularize_ingredient(AllIngredients[k], material_definitions)]
RegularIngredients ==
    [k \in 1..Len(AllIngredients) |->
        regularize_ingredient(AllIngredients[k], material_definitions).val]

Called == grocery_list # None
Returned == Called /\ grocery_list.ok

\* The accumulator of create_grocery_list after k recipes.
Accumulator(k) == create_grocery_list(SubSeq(recipes, 1, k), material_definitions)
Accumulators == {Accumulator(k) : k \in 0..Len(recipes)}

\* C1: when create_grocery_list succeeds, every item name of the recipes has one entry
\* in the list, and its quantity is the sum of the regularized quantities of all the
\* ingredients of that name.
C1_TotalsAreSums ==
    Returned =>
        \A regular \in {RegularIngredients} :
            \A name \in Items :
                Named(name, regular) # <<>> =>
                    /\ Len(Named(name, grocery_list.val)) = 1
                    /\ TotalOf(name, grocery_list.val) = TotalOf(name, regular)
                    /\ \A k \in 1..Len(regular) :
                          regular[k].item = name =>
                              physical_type(regular[k].quantity.unit)
                                = physical_type(Named(name, grocery_list.val)[1].quantity.unit)

\* Flour 1 g in one recipe and Flour 1 cup (regularized to 500 g) in the next give one
\* Flour entry of 501 g.
C1_Witness ==
    /\ Len(recipes) = 2
    /\ material_definitions = <<Material("Flour", "g", None, VolumeFactor)>>
    /\ recipes[1] = <<[item |-> "Flour", quantity |-> Q(<<1, 1>>, "g")]>>
    /\ recipes[2] = <<[item |-> "Flour", quantity |-> Q(<<1, 1>>, "cup")]>>
    /\ grocery_list = Ok(<<[item |-> "Flour", quantity |-> Q(<<501, 1>>, "g")]>>)

Unique(list) ==
    \A j, k \in 1..Len(list) : list[j].item = list[k].item => j = k

\* C2: the accumulator after every merge, and the list returned, hold no two entries
\* of the same item name.
C2_UniqueItems ==
    Called =>
        /\ \A merged \in Accumulators : merged.ok => Unique(merged.val)
        /\ grocery_list.ok => Unique(grocery_list.val)

\* The accumulator holds Flour and the next recipe lists Flour twice.
C2_Witness ==
    /\ Returned
    /\ Len(recipes) = 2
    /\ Len(Named("Flour", recipes[1])) = 1
    /\ Len(Named("Flour", recipes[2])) = 2
    /\ Len(grocery_list.val) = 1

TwoOfOneDimension(two) ==
    /\ Len(two) = 2
    /\ physical_type(two[1].quantity.unit) = physical_type(two[2].quantity.unit)
    /\ two[1].quantity.unit # two[2].quantity.unit

\* The entries of each item name among the regularized ingredients, in the order given.
RegularByName == {Named(name, RegularIngredients) : name \in Items}

\* C3 as stated: two entries of one name and one dimension in different units merge
\* into one entry that holds their sum in the unit of the first of them.
C3_SumInFirstUnit ==
    Returned =>
        \A two \in RegularByName :
            TwoOfOneDimension(two) =>
                /\ Len(Named(two[1].item, grocery_list.val)) = 1
                /\ TotalOf(two[1].item, grocery_list.val) = TotalOf(two[1].item, two)
                /\ Named(two[1].item, grocery_list.val)[1].quantity.unit
                     = two[1].quantity.unit

\* C3 amended: two entries of one name and one dimension in different units merge into
\* one entry that holds their sum in the unit of the second of them (the entry being
\* merged in), the first being converted into that unit.
C3_SumInSecondUnit ==
    Returned =>
        \A two \in RegularByName :
            TwoOfOneDimension(two) =>
                /\ Len(Named(two[1].item, grocery_list.val)) = 1
                /\ TotalOf(two[1].item, grocery_list.val) = TotalOf(two[1].item, two)
                /\ Named(two[1].item, grocery_list.val)[1].quantity.unit
                     = two[2].quantity.unit

\* Flour 1 g in the accumulator and Flour 1 kg in the next recipe: 1.001 kg.
C3_Witness ==
    /\ material_definitions = <<>>
    /\ Len(recipes) = 2
    /\ recipes[1] = <<[item |-> "Flour", quantity |-> Q(<<1, 1>>, "g")]>>
    /\ recipes[2] = <<[item |-> "Flour", quantity |-> Q(<<1, 1>>, "kg")]>>
    /\ grocery_list = Ok(<<[item |-> "Flour", quantity |-> Q(<<1001, 1000>>, "kg")]>>)

\* Two regularized entries of one name whose quantities cannot be added.
SomeSumFails(regular) ==
    \E j, k \in 1..Len(regular) :
        /\ regular[j].ok
        /\ regular[k].ok
        /\ regular[j].val.item = regular[k].val.item
        /\ physical_type(regular[j].val.quantity.unit)
             # physical_type(regular[k].val.quantity.unit)

\* The errors the ingredients raise: those of regularize_ingredient and that of a sum.
ErrorsRaised(regular) ==
    {regular[k].err : k \in {j \in 1..Len(regular) : ~regular[j].ok}}
      \cup (IF SomeSumFails(regular) THEN {"UnitConversionError"} ELSE {})

\* C6: when regularizing some ingredient raises, or two entries of one name cannot be
\* added, create_grocery_list raises one of these errors and returns no list.
C6_ErrorAbortsBuild ==
    Called =>
        \A regular \in {Regularized} :
            \A errors \in {ErrorsRaised(regular)} :
                errors # {} => (~grocery_list.ok /\ grocery_list.err \in errors)

\* The first recipe is merged, the second one fails, and the call raises.
C6_Witness ==
    /\ Called
    /\ ~grocery_list.ok
    /\ Len(recipes) = 2
    /\ Accumulator(1).ok
    /\ Accumulator(1).val # <<>>

Ascending(list) ==
    \A k \in 1..Len(list) - 1 : Key(list[k].item) <= Key(list[k + 1].item)

\* C7: the list every merge returns, and the list create_grocery_list returns, is in
\* ascending order of item name.
C7_AscendingItems ==
    Called =>
        /\ \A merged \in Accumulators : merged.ok => Ascending(merged.val)
        /\ grocery_list.ok => Ascending(grocery_list.val)

\* Rice is listed before Flour and the list has Flour first.
C7_Witness ==
    /\ Returned
    /\ Len(AllIngredients) >= 2
    /\ AllIngredients[1].item = "Rice"
    /\ AllIngredients[2].item = "Flour"
    /\ Len(grocery_list.val) = 2
    /\ grocery_list.val[1].item = "Flour"

\* The factor of a material for a quantity of the given physical type.
FactorFor(material, ptype) ==
    IF ptype = mass_type THEN material.mass_per_unit
    ELSE IF ptype = volume_type THEN material.volume_per_unit
    ELSE None

\* The quantity is a mass or a volume, the unit of the material is of another physical
\* type, and the material has the factor of the quantity's type, stated per unit of the
\* material's type.
CrossDimension(quantity, material) ==
    LET ptype == physical_type(quantity.unit)
        factor == FactorFor(material, ptype)
    IN  /\ ptype \in {mass_type, volume_type}
        /\ ptype # physical_type(material.unit)
        /\ factor # None
        /\ physical_type(factor.num) = ptype
        /\ physical_type(factor.den) = physical_type(material.unit)

\* `result` is in the unit of the material, and times the factor it is `quantity`.
DividedByFactor(result, quantity, material) ==
    LET factor == FactorFor(material, physical_type(quantity.unit))
    IN  /\ result.unit = material.unit
        /\ RMul(RMul(RDiv(Base(result), scale(factor.den)), factor.value),
                scale(factor.num))
             = Base(quantity)

\* C4: an ingredient of a known material, stated as a mass or a volume while the unit
\* of the material is of another dimension, is regularized to its quantity divided by
\* the factor of its own dimension, in the unit of the material, under the same name;
\* Ingredient(quantity, material) gives the same quantity.
C4_DividesBySameDimensionFactor ==
    /\ regularized # None =>
          LET material == lookup_of(material_definitions, regularized.ingredient.item)
          IN  (material # None /\ CrossDimension(regularized.ingredient.quantity, material))
              => /\ regularized.result.ok
                 /\ regularized.result.val.item = regularized.ingredient.item
                 /\ DividedByFactor(regularized.result.val.quantity,
                                    regularized.ingredient.quantity, material)
    /\ constructed # None =>
          (CrossDimension(constructed.quantity, constructed.material)
           => /\ constructed.result.ok
              /\ constructed.result.val.material = constructed.material
              /\ DividedByFactor(constructed.result.val.quantity, constructed.quantity,
                                 constructed.material))

\* Flour is known in g with 2 cup/kg: 1 cup of Flour is 500 g, in both programs.
C4_Witness ==
    /\ regularized # None
    /\ constructed # None
    /\ regularized.ingredient = [item |-> "Flour", quantity |-> Q(<<1, 1>>, "cup")]
    /\ lookup_of(material_definitions, "Flour") = Material("Flour", "g", None, VolumeFactor)
    /\ regularized.result = Ok([item |-> "Flour", quantity |-> Q(<<500, 1>>, "g")])
    /\ constructed.quantity = Q(<<1, 1>>, "cup")
    /\ constructed.material = Material("Flour", "g", None, VolumeFactor)
    /\ constructed.result.ok
    /\ constructed.result.val.quantity = Q(<<500, 1>>, "g")

\* The unit of the material is of another physical type than the quantity, and the
\* quantity is a count or the material lacks the factor of the quantity's type.
NoFactorApplies(quantity, material) ==
    /\ physical_type(quantity.unit) # physical_type(material.unit)
    /\ FactorFor(material, physical_type(quantity.unit)) = None

\* C5: an ingredient of a known material of another dimension to which no factor
\* applies (a count, or a mass or volume whose factor is absent) is refused with the
\* ValueError "Cannot regularize", by regularize_ingredient and by Ingredient(...).
C5_RaisesCannotRegularize ==
    /\ regularized # None =>
          LET material == lookup_of(material_definitions, regularized.ingredient.item)
          IN  (material # None /\ NoFactorApplies(regularized.ingredient.quantity, material))
              => regularized.result = Raise("ValueError: Cannot regularize")
    /\ constructed # None =>
          (NoFactorApplies(constructed.quantity, constructed.material)
           => constructed.result = Raise("ValueError: Cannot regularize"))

\* The material registered under `name` was made by load_ingredient.
Synthesized(name) ==
    /\ material_lookup[name] # None
    /\ lookup_of(material_definitions, name) = None

\* C8: a call of load_ingredient for a registered name leaves the catalog as it is; a
\* call for another name adds the material of that name with the unit of the
\* ingredient and no factor, and changes no other entry; the Ingredient returned is of
\* the registered material, in its unit and, the material having no factor, of the
\* amount stated.
C8_LoadIngredientFrame ==
    [][ LET data == loaded'.ingredient_data
            result == loaded'.result
        IN  /\ material_lookup[data.item] # None => material_lookup' = material_lookup
            /\ material_lookup[data.item] = None =>
                  /\ material_lookup'[data.item]
                       = Material(data.item, data.quantity.unit, None, None)
                  /\ \A name \in Items \ {data.item} :
                        material_lookup'[name] = material_lookup[name]
                  /\ result.ok
            /\ result.ok =>
                  /\ result.val.material = material_lookup'[data.item]
                  /\ result.val.quantity.unit = material_lookup'[data.item].unit
                  /\ (material_lookup'[data.item].mass_per_unit = None
                      /\ material_lookup'[data.item].volume_per_unit = None)
                     => Base(result.val.quantity) = Base(data.quantity)
      ]_vars

\* Flour was first seen in g; a later 1 kg of Flour comes back as 1000 g.
C8_Witness ==
    /\ loaded # None
    /\ Synthesized("Flour")
    /\ material_lookup["Flour"].unit = "g"
    /\ loaded.ingredient_data = [item |-> "Flour", quantity |-> Q(<<1, 1>>, "kg")]
    /\ loaded.result.ok
    /\ loaded.result.val.quantity = Q(<<1000, 1>>, "g")

\* C9: every call of get_shopping_list shows the names and totals the first call
\* showed, and the Ingredient objects of the recipes are as from_files made them.
C9_GetShoppingListIdempotent ==
    calls >= 1 =>
        /\ o_pc = "listed"
        /\ shopping_list.ok
        /\ first_list # None
        /\ Shown(heap, shopping_list.val) = first_list.val
        /\ \A ref \in 1..Len(flatten(cart_recipes)) :
              heap[ref] = from_files(recipes, material_definitions).heap[ref]

\* The second call, on a cart of two recipes that both hold Flour.
C9_Witness ==
    /\ calls = 2
    /\ Len(cart_recipes) = 2
    /\ Len(flatten(cart_recipes)) = 3
    /\ Len(shopping_list.val) = 1
    /\ first_list.val[1].item = "Flour"

Finished == Called /\ o_pc \in {"listed", "raised"}

\* C10: on the same recipes and materials, create_grocery_list and
\* from_files/get_shopping_list both raise, or both return lists of the same item
\* names with equal amounts of the same physical type for each name.
C10_PipelinesAgree ==
    Finished =>
        IF grocery_list.ok
        THEN /\ o_pc = "listed"
             /\ LET shown == Shown(heap, shopping_list.val)
                IN  \A name \in Items :
                       /\ Len(Named(name, shown)) = Len(Named(name, grocery_list.val))
                       /\ TotalOf(name, shown) = TotalOf(name, grocery_list.val)
                       /\ Named(name, shown) # <<>> =>
                             physical_type(Named(name, shown)[1].quantity.unit)
                               = physical_type(Named(name, grocery_list.val)[1].quantity.unit)
        ELSE o_pc = "raised"

\* Both return one Flour total, shown in different units.
C10_Witness ==
    /\ Finished
    /\ grocery_list.ok
    /\ o_pc = "listed"
    /\ Len(grocery_list.val) = 2
    /\ Len(AllIngredients) = 3
    /\ grocery_list.val[1].quantity.unit # Named("Flour", Shown(heap, shopping_list.val))[1].quantity.unit
====
